---- MODULE Spec2Model ----
\* A model of the VNC playback engine of src/src/vnc/playback.go: the session
\* facade (Start, Step, Pause, Continue, Stop, Inject), the script goroutine
\* (playFile, waitForIt), the dispatcher (writeEvents) and the listener.
EXTENDS Integers, Sequences, FiniteSets, TLC

VARIABLES
    script,     \* the script tree on disk: file name -> sequence of lines
    started,    \* Start has returned nil
    p,          \* the playback's guarded fields (playback.go:34-41)
    lock,       \* holder of the playback's sync.Mutex: 0 = free, else a caller
    sigClosed,  \* close(p.signal) has run
    outClosed,  \* close(p.out) has run
    conn,       \* the connection: "ok", "broken" or "closed"
    stack,      \* the playFile activations of the script goroutine, innermost last
    it,         \* the script goroutine: position and locals
    disp,       \* writeEvents: position and the event in hand
    stopper,    \* the goroutine of `go p.Stop()` in writeEvents
    listener,   \* the goroutine consuming server messages
    calls,      \* each external caller: position, operation, result
    ncalls,     \* number of external calls made
    crashed,    \* "no", or the panic that ended the process
    h           \* history: what was sent, written, persisted, closed

vars == <<script, started, p, lock, sigClosed, outClosed, conn, stack, it,
          disp, stopper, listener, calls, ncalls, crashed, h>>

----------------------------------------------------------------------------
\* Bounds of the model.

NumCallers == 1
\* External calls made in a run, and in a run on the self-including script.
MaxCalls == 2
MaxCallsDeep == 1
\* External calls made in a run on the script of two timed events.
MaxCallsTimed == 4

Callers == 1..NumCallers

\* Program constants.
WarnDepth == 10
LimitDepth == 100
\* time.Second in model ticks (one tick is half a second).
Second == 2

Nil == <<>>

----------------------------------------------------------------------------
\* Script trees. A line is <delay>:<directive>; kind "ev" is a wire event,
\* "load" a LoadFileEvent, "wfi" a WaitForItEvent, "bad" a line that is
\* malformed, a comment or does not parse, "baddur" a line whose directive
\* parses and whose delay does not.

L(d, kind, arg) == [d |-> d, kind |-> kind, arg |-> arg]

ScriptNested ==
    [top |-> <<L(1, "ev", 0), L(2, "load", "sub"), L(0, "ev", 0)>>,
     sub |-> <<L(1, "ev", 0), L(0, "bad", 0), L(0, "ev", 0)>>]

ScriptWait ==
    [top |-> <<L(0, "baddur", 0), L(1, "wfi", 2 * Second), L(0, "ev", 0)>>]

ScriptMissing ==
    [top |-> <<L(0, "ev", 0), L(1, "load", "gone"), L(0, "ev", 0)>>]

ScriptLoop ==
    [top |-> <<L(0, "load", "top")>>]

ScriptTimed ==
    [top |-> <<L(2, "ev", 0), L(1, "ev", 0)>>]

MainScripts == {ScriptNested, ScriptWait, ScriptMissing}

----------------------------------------------------------------------------
\* Helpers on the activation stack.

Top == stack[Len(stack)]
SetTop(f) == [stack EXCEPT ![Len(stack)] = f]
Line == script[Top.file][Top.i]

Frame(filename, via) ==
    [file |-> filename, i |-> 1, duration |-> 0, old |-> Nil,
     deferred |-> FALSE, via |-> via]

RECURSIVE SumDelays(_)
SumDelays(ls) ==
    IF ls = <<>> THEN 0
    ELSE (IF Head(ls).kind \in {"bad", "baddur"} THEN 0 ELSE Head(ls).d)
         + SumDelays(Tail(ls))

getDuration(f) == SumDelays(script[f])

----------------------------------------------------------------------------
\* Signals on p.signal. ptr tells whether data holds a pointer to the event
\* (as Inject sends it) or the event by value.

Sig(kind, ptr, arg) == [kind |-> kind, ptr |-> ptr, arg |-> arg]
Arg(file, timeout) == [file |-> file, timeout |-> timeout]
NoArg == Arg("", 0)
NoSig == Sig("none", FALSE, NoArg)

\* The files and timeouts an injected command may name.
InjectFiles == {"top"}
InjectTimeouts == {2 * Second}

NoPause == [d |-> 0, w |-> 0, on |-> "no"]
NoWfi == [got |-> 0, files |-> 0, res |-> "none"]
NoStep == [on |-> FALSE, level |-> 0, i |-> 0]
NoLine == [est |-> 0, level |-> 0, i |-> 0]

Init ==
    /\ script \in MainScripts
    /\ started = "no"
    /\ p = [state |-> "Play", closed |-> FALSE, depth |-> 0, duration |-> 0,
            e |-> <<>>, file |-> Nil, err |-> "nil"]
    /\ lock = 0
    /\ sigClosed = FALSE
    /\ outClosed = FALSE
    /\ conn = "ok"
    /\ stack = <<>>
    /\ it = [pc |-> "none", ret |-> "nil", sig |-> NoSig, waited |-> 0,
             elapsed |-> 0, timeout |-> 0, n |-> 0, via |-> "line"]
    /\ disp = [pc |-> "none", ev |-> <<>>]
    /\ stopper = "none"
    /\ listener = "none"
    /\ calls = [c \in Callers |-> [pc |-> "idle", op |-> "none", res |-> "none",
                                   arg |-> NoArg, pre |-> FALSE, sent |-> <<>>,
                                   st0 |-> "Play", cl0 |-> FALSE,
                                   st1 |-> "Play", cl1 |-> FALSE]]
    /\ ncalls = 0
    /\ crashed = "no"
    /\ h = [sent |-> <<>>, written |-> <<>>, shots |-> 0, connCloses |-> 0,
            sigCloses |-> 0, stopsOK |-> 0, stopsErr |-> 0,
            warnedAt |-> {}, openedAt |-> {}, failedAt |-> {},
            playErr |-> "none", pz |-> NoPause, stepped |-> NoStep,
            wfi |-> NoWfi, fatal |-> {}, aborted |-> FALSE,
            line |-> NoLine]

\* The process runs: no goroutine has panicked.
Alive == crashed = "no"

----------------------------------------------------------------------------
\* Start (playback.go:98-158): under the lock, negotiate the encodings and
\* launch writeEvents, the script goroutine and the listener.

Start ==
    /\ Alive /\ started = "no" /\ lock = 0
    /\ IF conn = "ok"
       THEN /\ started' = "yes"
            /\ p' = [p EXCEPT !.state = "Play"]
            /\ stack' = <<Frame("top", "top")>>
            /\ it' = [it EXCEPT !.pc = "open"]
            /\ disp' = [disp EXCEPT !.pc = "recv"]
            /\ listener' = "read"
       ELSE /\ started' = "failed"
            /\ UNCHANGED <<p, stack, it, disp, listener>>
    /\ UNCHANGED <<script, lock, sigClosed, outClosed, conn, stopper, calls,
                   ncalls, crashed, h>>

\* The server side of the connection fails.
ConnBreak ==
    /\ Alive /\ conn = "ok"
    /\ conn' = "broken"
    /\ UNCHANGED <<script, started, p, lock, sigClosed, outClosed, stack, it,
                   disp, stopper, listener, calls, ncalls, crashed, h>>

----------------------------------------------------------------------------
\* The script goroutine: playFile (playback.go:256-389).

\* return err from the innermost playFile (or from waitForIt into it).
Return(err) == [it EXCEPT !.pc = "return", !.ret = err]

Fatal(err) == [h EXCEPT !.fatal = @ \cup {err}]

\* os.Open(filename), playback.go:262-266.
playFile_open ==
    /\ Alive /\ it.pc = "open"
    /\ IF Top.file \notin DOMAIN script
       THEN it' = Return("open") /\ h' = Fatal("open")
       ELSE it' = [it EXCEPT !.pc = "addDuration0"] /\ UNCHANGED h
    /\ UNCHANGED <<script, started, p, lock, sigClosed, outClosed, conn,
                   stack, disp, stopper, listener, calls, ncalls, crashed>>

\* addDuration (playback.go:474-479), under the lock.
addDuration(d) == [p EXCEPT !.duration = @ + d]

\* v.addDuration(getDuration(f)), playback.go:269.
playFile_addTotal ==
    /\ Alive /\ it.pc = "addDuration0" /\ lock = 0
    /\ p' = addDuration(getDuration(Top.file))
    /\ it' = [it EXCEPT !.pc = "setFile"]
    /\ UNCHANGED <<script, started, lock, sigClosed, outClosed, conn, stack,
                   disp, stopper, listener, calls, ncalls, crashed, h>>

\* The file handle of the activation at level n of the stack.
Handle(n) == <<stack[n].file, n>>

\* Mutant: the limit is taken one level early.
TooDeepEarly(depth) == depth >= LimitDepth

\* if p.depth > 100, playback.go:451.
TooDeep(depth) == depth > LimitDepth

\* setFile (playback.go:443-457) and the defer of resetFile (271-277).
setFile ==
    /\ Alive /\ it.pc = "setFile" /\ lock = 0
    /\ LET depth == p.depth + 1 IN
       /\ IF TooDeep(depth)
          THEN /\ p' = [p EXCEPT !.depth = depth]
               /\ it' = Return("recursion")
               /\ UNCHANGED stack
               /\ h' = [h EXCEPT !.warnedAt = @ \cup {depth},
                                 !.failedAt = @ \cup {depth},
                                 !.fatal = @ \cup {"recursion"}]
          ELSE /\ p' = [p EXCEPT !.depth = depth, !.file = Handle(Len(stack))]
               /\ stack' = SetTop([Top EXCEPT !.old = p.file,
                                              !.deferred = TRUE])
               /\ it' = [it EXCEPT !.pc = "scan"]
               /\ h' = [h EXCEPT !.openedAt = @ \cup {depth},
                                 !.warnedAt = IF depth > WarnDepth
                                              THEN @ \cup {depth} ELSE @]
    /\ UNCHANGED <<script, started, lock, sigClosed, outClosed, conn, disp,
                   stopper, listener, calls, ncalls, crashed>>

\* scanner.Scan() and the parse of the line, playback.go:281-301.
playFile_scan ==
    /\ Alive /\ it.pc = "scan"
    /\ IF Top.i > Len(script[Top.file])
       THEN it' = Return("nil") /\ UNCHANGED stack
       ELSE IF Line.kind = "bad"
       THEN stack' = SetTop([Top EXCEPT !.i = @ + 1]) /\ UNCHANGED it
       ELSE it' = [it EXCEPT !.pc = "setStep"] /\ UNCHANGED stack
    /\ UNCHANGED <<script, started, p, lock, sigClosed, outClosed, conn,
                   disp, stopper, listener, calls, ncalls, crashed, h>>

\* setStep (playback.go:467-472) and the parse of the delay (306-313).
setStep ==
    /\ Alive /\ it.pc = "setStep" /\ lock = 0
    /\ p' = [p EXCEPT !.e = <<Top.file, Top.i>>]
    /\ IF Line.kind = "baddur"
       THEN /\ stack' = SetTop([Top EXCEPT !.i = @ + 1])
            /\ it' = [it EXCEPT !.pc = "scan"]
       ELSE /\ stack' = SetTop([Top EXCEPT !.duration = Line.d])
            /\ it' = [it EXCEPT !.pc = "select", !.elapsed = 0]
    /\ h' = [h EXCEPT !.pz = NoPause,
                      !.line = [est |-> p.duration, level |-> Len(stack),
                                i |-> Top.i]]
    /\ UNCHANGED <<script, started, lock, sigClosed, outClosed, conn, disp,
                   stopper, listener, calls, ncalls, crashed>>

\* Time passes while the script goroutine waits on a timer.
Tick ==
    /\ Alive
    /\ \/ it.pc = "select" /\ it.elapsed < Top.duration
       \/ it.pc = "wfiSelect" /\ it.elapsed < it.timeout
    /\ it' = [it EXCEPT !.elapsed = @ + 1]
    /\ UNCHANGED <<script, started, p, lock, sigClosed, outClosed, conn,
                   stack, disp, stopper, listener, calls, ncalls, crashed, h>>

\* case <-time.After(duration), playback.go:316.
playFile_timer ==
    /\ Alive /\ it.pc = "select" /\ it.elapsed >= Top.duration
    /\ it' = [it EXCEPT !.pc = "addDurationT"]
    /\ UNCHANGED <<script, started, p, lock, sigClosed, outClosed, conn,
                   stack, disp, stopper, listener, calls, ncalls, crashed, h>>

\* v.addDuration(-duration); goto Event, playback.go:317-319.
playFile_elapsed ==
    /\ Alive /\ it.pc = "addDurationT" /\ lock = 0
    /\ p' = addDuration(0 - Top.duration)
    /\ it' = [it EXCEPT !.pc = "event"]
    /\ UNCHANGED <<script, started, lock, sigClosed, outClosed, conn, stack,
                   disp, stopper, listener, calls, ncalls, crashed, h>>

\* The signal a caller blocked in its send on p.signal is sending.
SigOf(c) ==
    CASE calls[c].op = "Step" -> Sig("Step", FALSE, NoArg)
      [] calls[c].op = "Pause" -> Sig("Pause", FALSE, NoArg)
      [] calls[c].op = "Continue" -> Sig("Play", FALSE, NoArg)
      [] calls[c].op = "InjectLoad" -> Sig("LoadFile", TRUE, calls[c].arg)
      [] calls[c].op = "InjectWait" -> Sig("WaitForIt", TRUE, calls[c].arg)

\* The sender's side of a completed send on p.signal.
Sent(c) ==
    [calls EXCEPT ![c].pc = "sent", ![c].sent = Append(@, SigOf(c).kind)]

\* waited := start.Sub(time.Now()), playback.go:327: the wait began at
\* start and now is start + elapsed.
Waited(start, elapsed) == start - (start + elapsed)

\* case sig, ok := <-v.signal with ok, playback.go:320-327: the receive
\* completes the send of caller c.
playFile_recv(c) ==
    /\ Alive /\ it.pc = "select" /\ calls[c].pc = "sendSig"
    /\ ~sigClosed
    /\ it' = [it EXCEPT !.pc = "addDurationW", !.sig = SigOf(c),
                        !.waited = Waited(0, it.elapsed)]
    /\ calls' = Sent(c)
    /\ h' = [h EXCEPT !.stepped = IF SigOf(c).kind = "Step"
                                   THEN [on |-> TRUE, level |-> Len(stack),
                                         i |-> Top.i]
                                   ELSE @]
    /\ UNCHANGED <<script, started, p, lock, sigClosed, outClosed, conn,
                   stack, disp, stopper, listener, ncalls, crashed>>

\* The receive on the closed p.signal, playback.go:321-325 and 335-340.
playFile_abort ==
    /\ Alive /\ it.pc \in {"select", "paused"} /\ sigClosed
    /\ it' = Return("nil")
    /\ h' = [h EXCEPT !.aborted = TRUE]
    /\ UNCHANGED <<script, started, p, lock, sigClosed, outClosed, conn,
                   stack, disp, stopper, listener, calls, ncalls, crashed>>

\* The start of waitForIt (playback.go:391-403).
StartWait(e, via) ==
    [it EXCEPT !.pc = "wfiLoop", !.timeout = e, !.n = 0, !.via = via]

\* Mutant: a Step restarts the wait like an unexpected signal.
OnStepWaitAgain == [it EXCEPT !.pc = "select", !.elapsed = 0]

\* case Step: the remainder of the delay is skipped, playback.go:361-365.
OnStep == [it EXCEPT !.pc = "addDurationS"]

\* v.addDuration(-waited); duration -= waited; switch sig.kind,
\* playback.go:328-368.
playFile_signal ==
    /\ Alive /\ it.pc = "addDurationW" /\ lock = 0
    /\ p' = addDuration(0 - it.waited)
    /\ LET duration == Top.duration - it.waited
           f == [Top EXCEPT !.duration = duration]
       IN CASE it.sig.kind = "Pause" ->
                 /\ stack' = SetTop(f)
                 /\ it' = [it EXCEPT !.pc = "paused"]
                 /\ h' = [h EXCEPT !.pz = [d |-> Top.duration,
                                            w |-> it.elapsed, on |-> "paused"]]
                 /\ UNCHANGED crashed
            [] it.sig.kind = "LoadFile" ->
                 \* e := sig.data.(LoadFileEvent)
                 IF it.sig.ptr
                 THEN /\ crashed' = "type assertion"
                      /\ stack' = SetTop(f)
                      /\ UNCHANGED <<it, h>>
                 ELSE /\ stack' = Append(SetTop(f), Frame(it.sig.arg.file, "sig"))
                      /\ it' = [it EXCEPT !.pc = "open"]
                      /\ h' = [h EXCEPT !.pz = NoPause]
                      /\ UNCHANGED crashed
            [] it.sig.kind = "WaitForIt" ->
                 /\ stack' = SetTop(f)
                 /\ it' = StartWait(it.sig.arg.timeout, "sig")
                 /\ h' = [h EXCEPT !.pz = NoPause, !.wfi = NoWfi]
                 /\ UNCHANGED crashed
            [] it.sig.kind = "Step" ->
                 /\ stack' = SetTop(f)
                 /\ it' = OnStep
                 /\ h' = [h EXCEPT !.pz = NoPause]
                 /\ UNCHANGED crashed
            [] OTHER ->
                 /\ stack' = SetTop(f)
                 /\ it' = [it EXCEPT !.pc = "select", !.elapsed = 0]
                 /\ h' = [h EXCEPT !.pz = NoPause]
                 /\ UNCHANGED crashed
    /\ UNCHANGED <<script, started, lock, sigClosed, outClosed, conn, disp,
                   stopper, listener, calls, ncalls>>

\* sig, ok := <-v.signal in case Pause, with ok, playback.go:335-347.
playFile_resume(c) ==
    /\ Alive /\ it.pc = "paused" /\ calls[c].pc = "sendSig"
    /\ ~sigClosed
    /\ it' = [it EXCEPT !.pc = "select", !.elapsed = 0, !.sig = SigOf(c)]
    /\ calls' = Sent(c)
    /\ h' = [h EXCEPT !.pz = IF SigOf(c).kind = "Play"
                              THEN [@ EXCEPT !.on = "resumed"] ELSE NoPause]
    /\ UNCHANGED <<script, started, p, lock, sigClosed, outClosed, conn,
                   stack, disp, stopper, listener, ncalls, crashed>>

\* Mutant: a Step goes to the directive without booking the rest of the
\* delay.
playFile_stepUnbooked ==
    /\ Alive /\ it.pc = "addDurationS" /\ lock = 0
    /\ it' = [it EXCEPT !.pc = "event"]
    /\ UNCHANGED <<script, started, p, lock, sigClosed, outClosed, conn,
                   stack, disp, stopper, listener, calls, ncalls, crashed, h>>

\* case Step: v.addDuration(-duration); goto Event, playback.go:361-365.
playFile_step ==
    /\ Alive /\ it.pc = "addDurationS" /\ lock = 0
    /\ p' = addDuration(0 - Top.duration)
    /\ it' = [it EXCEPT !.pc = "event"]
    /\ UNCHANGED <<script, started, lock, sigClosed, outClosed, conn, stack,
                   disp, stopper, listener, calls, ncalls, crashed, h>>

\* Event: switch e := res.(type), playback.go:373-385.
playFile_event ==
    /\ Alive /\ it.pc = "event"
    /\ CASE Line.kind = "ev" ->
              /\ it' = [it EXCEPT !.pc = "sendOut"]
              /\ h' = [h EXCEPT !.stepped = NoStep]
              /\ UNCHANGED stack
         [] Line.kind = "load" ->
              /\ stack' = Append(stack, Frame(Line.arg, "line"))
              /\ it' = [it EXCEPT !.pc = "open"]
              /\ h' = [h EXCEPT !.stepped = NoStep]
         [] Line.kind = "wfi" ->
              /\ it' = StartWait(Line.arg, "line")
              /\ h' = [h EXCEPT !.wfi = NoWfi, !.stepped = NoStep]
              /\ UNCHANGED stack
    /\ UNCHANGED <<script, started, p, lock, sigClosed, outClosed, conn,
                   disp, stopper, listener, calls, ncalls, crashed>>

\* Mutant: the first loop forgets the event it received.
TakeAndDrop(ev) == disp

\* The receiving side of p.out taking event ev: the first loop of
\* writeEvents keeps it to write it, the draining loop drops it
\* (playback.go:486, 496).
Take(ev) ==
    IF disp.pc = "recv" THEN [disp EXCEPT !.pc = "write", !.ev = ev] ELSE disp

Receiving == disp.pc \in {"recv", "drain"}

ScriptEvent == <<"script", Top.file, Top.i>>
InjectedEvent == <<"inject", "", 0>>

\* v.out <- e, playback.go:376: completes when writeEvents receives.
playFile_send ==
    /\ Alive /\ it.pc = "sendOut" /\ Receiving /\ ~outClosed
    /\ disp' = Take(ScriptEvent)
    /\ stack' = SetTop([Top EXCEPT !.i = @ + 1])
    /\ it' = [it EXCEPT !.pc = "scan"]
    /\ h' = [h EXCEPT !.sent = Append(@, ScriptEvent)]
    /\ UNCHANGED <<script, started, p, lock, sigClosed, outClosed, conn,
                   stopper, listener, calls, ncalls, crashed>>

\* The caller of the innermost activation takes its result: the check of
\* err at playback.go:351-353 and 378-380, and at 116-118 for the top file.
Unwind(rest) ==
    IF rest = <<>>
    THEN /\ stack' = rest
         /\ it' = [it EXCEPT !.pc = "closeOut"]
         /\ h' = [h EXCEPT !.playErr = it.ret]
    ELSE /\ UNCHANGED h
         /\ IF it.ret # "nil"
            THEN stack' = rest /\ UNCHANGED it
            ELSE IF Top.via = "line"
            THEN /\ stack' = [rest EXCEPT ![Len(rest)].i = @ + 1]
                 /\ it' = [it EXCEPT !.pc = "scan"]
            ELSE /\ stack' = rest
                 /\ it' = [it EXCEPT !.pc = "select", !.elapsed = 0]

\* A return of playFile before the defer of resetFile is registered
\* (playback.go:264, 273).
playFile_return ==
    /\ Alive /\ it.pc = "return" /\ ~Top.deferred
    /\ Unwind(SubSeq(stack, 1, Len(stack) - 1))
    /\ UNCHANGED <<script, started, p, lock, sigClosed, outClosed, conn,
                   disp, stopper, listener, calls, ncalls, crashed>>

\* resetFile (playback.go:459-465), deferred at 275-277, then the return.
resetFile ==
    /\ Alive /\ it.pc = "return" /\ Top.deferred /\ lock = 0
    /\ p' = [p EXCEPT !.depth = @ - 1, !.file = Top.old]
    /\ Unwind(SubSeq(stack, 1, Len(stack) - 1))
    /\ UNCHANGED <<script, started, lock, sigClosed, outClosed, conn, disp,
                   stopper, listener, calls, ncalls, crashed>>

\* Mutant: the script goroutine ends without closing p.out.
Start_closeOutSkipped ==
    /\ Alive /\ it.pc = "closeOut"
    /\ it' = [it EXCEPT !.pc = "stop"]
    /\ UNCHANGED <<script, started, p, lock, sigClosed, outClosed, conn,
                   stack, disp, stopper, listener, calls, ncalls, crashed, h>>

\* close(p.out), playback.go:122.
Start_closeOut ==
    /\ Alive /\ it.pc = "closeOut"
    /\ outClosed' = TRUE
    /\ it' = [it EXCEPT !.pc = "stop"]
    /\ UNCHANGED <<script, started, p, lock, sigClosed, conn, stack, disp,
                   stopper, listener, calls, ncalls, crashed, h>>

----------------------------------------------------------------------------
\* Stop (playback.go:201-213), run under the lock by whoever calls it.

\* Mutant: Stop without the check of p.closed.
StopUnchecked ==
    /\ h' = [h EXCEPT !.stopsOK = @ + 1, !.sigCloses = @ + 1]
    /\ IF sigClosed
       THEN crashed' = "close of closed channel"
            /\ UNCHANGED <<p, sigClosed>>
       ELSE /\ sigClosed' = TRUE
            /\ p' = [p EXCEPT !.closed = TRUE]
            /\ UNCHANGED crashed

Stop ==
    IF p.closed
    THEN /\ h' = [h EXCEPT !.stopsErr = @ + 1]
         /\ UNCHANGED <<p, sigClosed, crashed>>
    ELSE /\ h' = [h EXCEPT !.stopsOK = @ + 1, !.sigCloses = @ + 1]
         /\ IF sigClosed
            THEN crashed' = "close of closed channel"
                 /\ UNCHANGED <<p, sigClosed>>
            ELSE /\ sigClosed' = TRUE
                 /\ p' = [p EXCEPT !.closed = TRUE]
                 /\ UNCHANGED crashed

\* p.Stop() of the script goroutine, playback.go:125.
Start_stop ==
    /\ Alive /\ it.pc = "stop" /\ lock = 0
    /\ Stop
    /\ it' = [it EXCEPT !.pc = "done"]
    /\ UNCHANGED <<script, started, lock, outClosed, conn, stack, disp,
                   stopper, listener, calls, ncalls>>

\* go p.Stop(), playback.go:494.
writeEvents_stop ==
    /\ Alive /\ stopper = "lock" /\ lock = 0
    /\ Stop
    /\ stopper' = "done"
    /\ UNCHANGED <<script, started, lock, outClosed, conn, stack, it, disp,
                   listener, calls, ncalls>>

----------------------------------------------------------------------------
\* writeEvents (playback.go:483-499).

\* Mutant: after a failed write the dispatcher returns without draining.
writeEvents_writeNoDrain ==
    /\ Alive /\ disp.pc = "write"
    /\ IF conn = "ok"
       THEN /\ h' = [h EXCEPT !.written = Append(@, disp.ev)]
            /\ disp' = [disp EXCEPT !.pc = "recv", !.ev = <<>>]
            /\ UNCHANGED <<stopper, conn>>
       ELSE /\ h' = [Fatal("write") EXCEPT !.connCloses = @ + 1]
            /\ disp' = [disp EXCEPT !.pc = "done", !.ev = <<>>]
            /\ stopper' = "lock"
            /\ conn' = "closed"
    /\ UNCHANGED <<script, started, p, lock, sigClosed, outClosed,
                   stack, it, listener, calls, ncalls, crashed>>

\* e.Write(p.Conn), playback.go:487-490.
writeEvents_write ==
    /\ Alive /\ disp.pc = "write"
    /\ IF conn = "ok"
       THEN /\ h' = [h EXCEPT !.written = Append(@, disp.ev)]
            /\ disp' = [disp EXCEPT !.pc = "recv", !.ev = <<>>]
            /\ UNCHANGED stopper
       ELSE /\ h' = Fatal("write")
            /\ disp' = [disp EXCEPT !.pc = "drain", !.ev = <<>>]
            /\ stopper' = "lock"
    /\ UNCHANGED <<script, started, p, lock, sigClosed, outClosed, conn,
                   stack, it, listener, calls, ncalls, crashed>>

\* The first loop ends on the closed p.out, playback.go:486, 494.
writeEvents_end ==
    /\ Alive /\ disp.pc = "recv" /\ outClosed
    /\ disp' = [disp EXCEPT !.pc = "drain"]
    /\ stopper' = "lock"
    /\ UNCHANGED <<script, started, p, lock, sigClosed, outClosed, conn,
                   stack, it, listener, calls, ncalls, crashed, h>>

\* The draining loop ends on the closed p.out and the deferred
\* p.Conn.Close() runs, playback.go:484, 496-498.
writeEvents_close ==
    /\ Alive /\ disp.pc = "drain" /\ outClosed
    /\ disp' = [disp EXCEPT !.pc = "done"]
    /\ conn' = "closed"
    /\ h' = [h EXCEPT !.connCloses = @ + 1]
    /\ UNCHANGED <<script, started, p, lock, sigClosed, outClosed, stack, it,
                   stopper, listener, calls, ncalls, crashed>>

----------------------------------------------------------------------------
\* waitForIt (playback.go:391-441).

\* The caller's check of waitForIt's result, playback.go:357-359, 382-384.
AfterWait(err) ==
    IF err # "nil" THEN Return(err)
    ELSE IF it.via = "line" THEN [it EXCEPT !.pc = "scan"]
    ELSE [it EXCEPT !.pc = "select", !.elapsed = 0]

AfterWaitStack(err) ==
    IF err = "nil" /\ it.via = "line"
    THEN SetTop([Top EXCEPT !.i = @ + 1]) ELSE stack

Returned(err) == [h EXCEPT !.wfi.res = err, !.fatal = @ \cup {err}]

\* for timeout > 0 { fb.Write(p.Conn) ... } return timeout error,
\* playback.go:404-408, 440.
waitForIt_loop ==
    /\ Alive /\ it.pc = "wfiLoop"
    /\ IF it.timeout > 0
       THEN IF conn = "ok"
            THEN /\ it' = [it EXCEPT !.pc = "wfiSelect", !.elapsed = 0]
                 /\ UNCHANGED <<stack, h>>
            ELSE /\ it' = AfterWait("request")
                 /\ stack' = AfterWaitStack("request")
                 /\ h' = Returned("request")
       ELSE /\ it' = AfterWait("timeout")
            /\ stack' = AfterWaitStack("timeout")
            /\ h' = Returned("timeout")
    /\ UNCHANGED <<script, started, p, lock, sigClosed, outClosed, conn,
                   disp, stopper, listener, calls, ncalls, crashed>>

\* Mutant: the frame stays with the listener after the wait has taken it,
\* as it would in a buffered handoff.
waitForIt_frameKept(saved) ==
    /\ Alive /\ it.pc = "wfiSelect" /\ listener = "send"
    /\ IF saved
       THEN /\ it' = [it EXCEPT !.pc = "wfiSleep", !.n = @ + 1,
                                !.timeout = @ - it.elapsed]
            /\ h' = [h EXCEPT !.shots = @ + 1, !.wfi.got = @ + 1,
                              !.wfi.files = @ + 1]
            /\ UNCHANGED stack
       ELSE /\ it' = AfterWait("persist")
            /\ stack' = AfterWaitStack("persist")
            /\ h' = [Returned("persist") EXCEPT !.wfi.got = @ + 1]
    /\ UNCHANGED <<script, started, p, lock, sigClosed, outClosed, conn,
                   disp, stopper, listener, calls, ncalls, crashed>>

\* case screenshot := <-p.screenshots, playback.go:413-430: the receive
\* completes the listener's non-blocking send (playback.go:144-146); saved
\* tells whether os.Create and png.Encode succeed.
waitForIt_frame(saved) ==
    /\ Alive /\ it.pc = "wfiSelect" /\ listener = "send"
    /\ listener' = "read"
    /\ IF saved
       THEN /\ it' = [it EXCEPT !.pc = "wfiSleep", !.n = @ + 1,
                                !.timeout = @ - it.elapsed]
            /\ h' = [h EXCEPT !.shots = @ + 1, !.wfi.got = @ + 1,
                              !.wfi.files = @ + 1]
            /\ UNCHANGED stack
       ELSE /\ it' = AfterWait("persist")
            /\ stack' = AfterWaitStack("persist")
            /\ h' = [Returned("persist") EXCEPT !.wfi.got = @ + 1]
    /\ UNCHANGED <<script, started, p, lock, sigClosed, outClosed, conn,
                   disp, stopper, calls, ncalls, crashed>>

\* case <-time.After(timeout), playback.go:431-432.
waitForIt_timeout ==
    /\ Alive /\ it.pc = "wfiSelect" /\ it.elapsed >= it.timeout
    /\ it' = AfterWait("timeout")
    /\ stack' = AfterWaitStack("timeout")
    /\ h' = Returned("timeout")
    /\ UNCHANGED <<script, started, p, lock, sigClosed, outClosed, conn,
                   disp, stopper, listener, calls, ncalls, crashed>>

\* time.Sleep(time.Second); timeout -= time.Second, playback.go:436-437.
waitForIt_sleep ==
    /\ Alive /\ it.pc = "wfiSleep"
    /\ it' = [it EXCEPT !.pc = "wfiLoop", !.timeout = @ - Second]
    /\ UNCHANGED <<script, started, p, lock, sigClosed, outClosed, conn,
                   stack, disp, stopper, listener, calls, ncalls, crashed, h>>

----------------------------------------------------------------------------
\* The listener goroutine (playback.go:127-155).

\* p.Conn.ReadMessage(): a framebuffer update with an image, or an error.
listener_read ==
    /\ Alive /\ listener = "read"
    /\ listener' = IF conn = "ok" THEN "send" ELSE "done"
    /\ UNCHANGED <<script, started, p, lock, sigClosed, outClosed, conn,
                   stack, it, disp, stopper, calls, ncalls, crashed, h>>

\* default: drop, playback.go:147-149.
listener_drop ==
    /\ Alive /\ listener = "send" /\ it.pc # "wfiSelect"
    /\ listener' = "read"
    /\ UNCHANGED <<script, started, p, lock, sigClosed, outClosed, conn,
                   stack, it, disp, stopper, calls, ncalls, crashed, h>>

----------------------------------------------------------------------------
\* The external callers of the session's control surface.

Ops == {"Step", "Pause", "Continue", "Stop", "Info",
        "InjectEvent", "InjectLoad", "InjectWait", "InjectBad"}

Args(op) ==
    CASE op = "InjectLoad" -> {Arg(f, 0) : f \in InjectFiles}
      [] op = "InjectWait" -> {Arg("", t) : t \in InjectTimeouts}
      [] OTHER -> {NoArg}

\* What the operation's contract requires of the session.
Pre(op) ==
    CASE op \in {"Step", "Pause"} -> p.state = "Play" /\ ~p.closed
      [] op = "Continue" -> p.state = "Pause" /\ ~p.closed
      [] OTHER -> ~p.closed

\* The number of external calls explored on the script at hand.
Budget ==
    CASE script = ScriptLoop -> MaxCallsDeep
      [] script = ScriptTimed -> MaxCallsTimed
      [] OTHER -> MaxCalls

\* A caller invokes an operation and waits for p.Lock().
Call(c, op, arg) ==
    /\ Alive /\ started = "yes" /\ calls[c].pc = "idle" /\ ncalls < Budget
    /\ ncalls' = ncalls + 1
    /\ calls' = [calls EXCEPT ![c] =
                   [@ EXCEPT !.pc = "lock", !.op = op, !.arg = arg,
                             !.res = "none", !.sent = <<>>]]
    /\ UNCHANGED <<script, started, p, lock, sigClosed, outClosed, conn,
                   stack, it, disp, stopper, listener, crashed, h>>

\* The call returns err at once: nothing is sent.
Fail(c) ==
    [calls EXCEPT ![c] =
       [@ EXCEPT !.pc = "idle", !.res = "err", !.pre = Pre(calls[c].op),
                 !.st0 = p.state, !.cl0 = p.closed,
                 !.st1 = p.state, !.cl1 = p.closed]]

\* The call goes on to its send, holding the lock.
Hold(c, at) ==
    [calls EXCEPT ![c] =
       [@ EXCEPT !.pc = at, !.pre = Pre(calls[c].op),
                 !.st0 = p.state, !.cl0 = p.closed]]

At(c, op) == Alive /\ calls[c].pc = "lock" /\ calls[c].op = op /\ lock = 0

\* Step, playback.go:160-168.
Step(c) ==
    /\ At(c, "Step")
    /\ IF p.state # "Play" \/ p.closed
       THEN calls' = Fail(c) /\ UNCHANGED lock
       ELSE calls' = Hold(c, "sendSig") /\ lock' = c
    /\ UNCHANGED <<script, started, p, sigClosed, outClosed, conn, stack,
                   it, disp, stopper, listener, ncalls, crashed, h>>

\* Pause, playback.go:173-181.
Pause(c) ==
    /\ At(c, "Pause")
    /\ IF p.state # "Play" \/ p.closed
       THEN calls' = Fail(c) /\ UNCHANGED lock
       ELSE calls' = Hold(c, "sendSig") /\ lock' = c
    /\ UNCHANGED <<script, started, p, sigClosed, outClosed, conn, stack,
                   it, disp, stopper, listener, ncalls, crashed, h>>

\* Continue, playback.go:187-195.
Continue(c) ==
    /\ At(c, "Continue")
    /\ IF p.state # "Pause" \/ p.closed
       THEN calls' = Fail(c) /\ UNCHANGED lock
       ELSE calls' = Hold(c, "sendSig") /\ lock' = c
    /\ UNCHANGED <<script, started, p, sigClosed, outClosed, conn, stack,
                   it, disp, stopper, listener, ncalls, crashed, h>>

\* Inject, playback.go:215-240, up to its send.
Inject(c) ==
    /\ Alive /\ calls[c].pc = "lock" /\ lock = 0
    /\ calls[c].op \in {"InjectEvent", "InjectLoad", "InjectWait", "InjectBad"}
    /\ IF p.closed \/ calls[c].op = "InjectBad"
       THEN calls' = Fail(c) /\ UNCHANGED lock
       ELSE /\ lock' = c
            /\ calls' = Hold(c, IF calls[c].op = "InjectEvent"
                                THEN "sendOut" ELSE "sendSig")
    /\ UNCHANGED <<script, started, p, sigClosed, outClosed, conn, stack,
                   it, disp, stopper, listener, ncalls, crashed, h>>

\* p.out <- event, playback.go:229: completes when writeEvents receives.
Inject_send(c) ==
    /\ Alive /\ calls[c].pc = "sendOut" /\ Receiving /\ ~outClosed
    /\ disp' = Take(InjectedEvent)
    /\ calls' = [calls EXCEPT ![c].pc = "sent",
                              ![c].sent = Append(@, "Event")]
    /\ h' = [h EXCEPT !.sent = Append(@, InjectedEvent)]
    /\ UNCHANGED <<script, started, p, lock, sigClosed, outClosed, conn,
                   stack, it, stopper, listener, ncalls, crashed>>

\* A send on a closed channel panics.
send_closed(c) ==
    /\ Alive
    /\ calls[c].pc \in {"sendSig", "sendOut"}
    /\ IF calls[c].pc = "sendSig" THEN sigClosed ELSE outClosed
    /\ crashed' = "send on closed channel"
    /\ UNCHANGED <<script, started, p, lock, sigClosed, outClosed, conn,
                   stack, it, disp, stopper, listener, calls, ncalls, h>>

\* Mutant: the state is not updated after the send.
StateAfterStale(op) == p.state

\* The assignment to p.state after the send, playback.go:182, 196.
StateAfter(op) ==
    CASE op = "Pause" -> "Pause"
      [] op = "Continue" -> "Play"
      [] OTHER -> p.state

\* The rest of Step, Pause, Continue and Inject after the send, and the
\* deferred p.Unlock().
Unlock(c) ==
    /\ Alive /\ calls[c].pc = "sent" /\ lock = c
    /\ p' = [p EXCEPT !.state = StateAfter(calls[c].op)]
    /\ lock' = 0
    /\ calls' = [calls EXCEPT ![c] =
                   [@ EXCEPT !.pc = "idle", !.res = "nil",
                             !.st1 = p'.state, !.cl1 = p.closed]]
    /\ UNCHANGED <<script, started, sigClosed, outClosed, conn, stack, it,
                   disp, stopper, listener, ncalls, crashed, h>>

\* Stop called from outside.
Stop_call(c) ==
    /\ At(c, "Stop")
    /\ Stop
    /\ calls' = [calls EXCEPT ![c] =
                   [@ EXCEPT !.pc = "idle", !.pre = Pre("Stop"),
                             !.res = IF p.closed THEN "err" ELSE "nil",
                             !.st0 = p.state, !.cl0 = p.closed,
                             !.st1 = p.state, !.cl1 = p'.closed]]
    /\ UNCHANGED <<script, started, lock, outClosed, conn, stack, it, disp,
                   stopper, listener, ncalls>>

\* Info, playback.go:74-96: nil on a closed session, else the status, whose
\* last element is p.file.Name(); on a nil p.file that call dereferences nil.
Info(c) ==
    /\ At(c, "Info")
    /\ IF ~p.closed /\ p.file = Nil
       THEN crashed' = "nil dereference" /\ UNCHANGED calls
       ELSE /\ calls' = [calls EXCEPT ![c] =
                   [@ EXCEPT !.pc = "idle", !.pre = Pre("Info"),
                             !.res = IF p.closed THEN "nil" ELSE "status",
                             !.st0 = p.state, !.cl0 = p.closed,
                             !.st1 = p.state, !.cl1 = p.closed]]
            /\ UNCHANGED crashed
    /\ UNCHANGED <<script, started, p, lock, sigClosed, outClosed, conn,
                   stack, it, disp, stopper, listener, ncalls, h>>

----------------------------------------------------------------------------

Next ==
    \/ Start
    \/ ConnBreak
    \/ playFile_open
    \/ playFile_addTotal
    \/ setFile
    \/ playFile_scan
    \/ setStep
    \/ Tick
    \/ playFile_timer
    \/ playFile_elapsed
    \/ \E c \in Callers : playFile_recv(c)
    \/ playFile_abort
    \/ playFile_signal
    \/ \E c \in Callers : playFile_resume(c)
    \/ playFile_step
    \/ playFile_event
    \/ playFile_send
    \/ playFile_return
    \/ resetFile
    \/ Start_closeOut
    \/ Start_stop
    \/ writeEvents_stop
    \/ writeEvents_write
    \/ writeEvents_end
    \/ writeEvents_close
    \/ waitForIt_loop
    \/ \E saved \in BOOLEAN : waitForIt_frame(saved)
    \/ waitForIt_timeout
    \/ waitForIt_sleep
    \/ listener_read
    \/ listener_drop
    \/ \E c \in Callers, op \in Ops : \E arg \in Args(op) : Call(c, op, arg)
    \/ \E c \in Callers : Step(c)
    \/ \E c \in Callers : Pause(c)
    \/ \E c \in Callers : Continue(c)
    \/ \E c \in Callers : Inject(c)
    \/ \E c \in Callers : Inject_send(c)
    \/ \E c \in Callers : send_closed(c)
    \/ \E c \in Callers : Unlock(c)
    \/ \E c \in Callers : Stop_call(c)
    \/ \E c \in Callers : Info(c)

Spec == Init /\ [][Next]_vars

\* The same program started on the script that includes itself.
InitDepth ==
    /\ script = ScriptLoop
    /\ started = "no"
    /\ p = [state |-> "Play", closed |-> FALSE, depth |-> 0, duration |-> 0,
            e |-> <<>>, file |-> Nil, err |-> "nil"]
    /\ lock = 0
    /\ sigClosed = FALSE
    /\ outClosed = FALSE
    /\ conn = "ok"
    /\ stack = <<>>
    /\ it = [pc |-> "none", ret |-> "nil", sig |-> NoSig, waited |-> 0,
             elapsed |-> 0, timeout |-> 0, n |-> 0, via |-> "line"]
    /\ disp = [pc |-> "none", ev |-> <<>>]
    /\ stopper = "none"
    /\ listener = "none"
    /\ calls = [c \in Callers |-> [pc |-> "idle", op |-> "none", res |-> "none",
                                   arg |-> NoArg, pre |-> FALSE, sent |-> <<>>,
                                   st0 |-> "Play", cl0 |-> FALSE,
                                   st1 |-> "Play", cl1 |-> FALSE]]
    /\ ncalls = 0
    /\ crashed = "no"
    /\ h = [sent |-> <<>>, written |-> <<>>, shots |-> 0, connCloses |-> 0,
            sigCloses |-> 0, stopsOK |-> 0, stopsErr |-> 0,
            warnedAt |-> {}, openedAt |-> {}, failedAt |-> {},
            playErr |-> "none", pz |-> NoPause, stepped |-> NoStep,
            wfi |-> NoWfi, fatal |-> {}, aborted |-> FALSE,
            line |-> NoLine]

\* The steps of the program on the self-including script. Its only line is
\* the load, so playFile_send is never enabled, and with one external call
\* no second signal reaches a paused interpreter, so playFile_resume is
\* never enabled: both are left out (MaxCallsDeep = 1).
NextDepth ==
    \/ Start
    \/ ConnBreak
    \/ playFile_open
    \/ playFile_addTotal
    \/ setFile
    \/ playFile_scan
    \/ setStep
    \/ Tick
    \/ playFile_timer
    \/ playFile_elapsed
    \/ \E c \in Callers : playFile_recv(c)
    \/ playFile_abort
    \/ playFile_signal
    \/ playFile_step
    \/ playFile_event
    \/ playFile_return
    \/ resetFile
    \/ Start_closeOut
    \/ Start_stop
    \/ writeEvents_stop
    \/ writeEvents_write
    \/ writeEvents_end
    \/ writeEvents_close
    \/ waitForIt_loop
    \/ \E saved \in BOOLEAN : waitForIt_frame(saved)
    \/ waitForIt_timeout
    \/ waitForIt_sleep
    \/ listener_read
    \/ listener_drop
    \/ \E c \in Callers, op \in Ops : \E arg \in Args(op) : Call(c, op, arg)
    \/ \E c \in Callers : Step(c)
    \/ \E c \in Callers : Pause(c)
    \/ \E c \in Callers : Continue(c)
    \/ \E c \in Callers : Inject(c)
    \/ \E c \in Callers : Inject_send(c)
    \/ \E c \in Callers : send_closed(c)
    \/ \E c \in Callers : Unlock(c)
    \/ \E c \in Callers : Stop_call(c)
    \/ \E c \in Callers : Info(c)

SpecDepth == InitDepth /\ [][NextDepth]_vars

----------------------------------------------------------------------------
\* The session left alone: after Start no caller invokes an operation, so no
\* signal is ever sent and the steps that receive one are never enabled.

\* The steps of the script goroutine when no signal is sent.
Interp ==
    \/ playFile_open
    \/ playFile_addTotal
    \/ setFile
    \/ playFile_scan
    \/ setStep
    \/ playFile_timer
    \/ playFile_elapsed
    \/ playFile_abort
    \/ playFile_event
    \/ playFile_send
    \/ playFile_return
    \/ resetFile
    \/ Start_closeOut
    \/ Start_stop
    \/ waitForIt_loop
    \/ \E saved \in BOOLEAN : waitForIt_frame(saved)
    \/ waitForIt_timeout
    \/ waitForIt_sleep

\* The steps of writeEvents on its own.
Dispatcher ==
    \/ writeEvents_write
    \/ writeEvents_end
    \/ writeEvents_close

NextQuiet ==
    \/ Start
    \/ ConnBreak
    \/ Tick
    \/ Interp
    \/ Dispatcher
    \/ writeEvents_stop
    \/ listener_read
    \/ listener_drop

\* Every goroutine that can run is scheduled, and time passes; nothing is
\* assumed of the server (ConnBreak) or of the frames the listener reads.
FairQuiet ==
    /\ WF_vars(Interp)
    /\ WF_vars(Dispatcher)
    /\ WF_vars(writeEvents_stop)
    /\ WF_vars(Tick)

SpecQuiet == Init /\ [][NextQuiet]_vars /\ FairQuiet

\* The program on a script of two timed events, its callers using Step,
\* Pause and Continue only. No file is included, no synchronizer started and
\* nothing injected, so the steps of waitForIt, Inject, Info and an outside
\* Stop are left out, as are the return before setFile and the send on a
\* closed channel, which are never enabled here.
InitTimed ==
    /\ script = ScriptTimed
    /\ started = "no"
    /\ p = [state |-> "Play", closed |-> FALSE, depth |-> 0, duration |-> 0,
            e |-> <<>>, file |-> Nil, err |-> "nil"]
    /\ lock = 0
    /\ sigClosed = FALSE
    /\ outClosed = FALSE
    /\ conn = "ok"
    /\ stack = <<>>
    /\ it = [pc |-> "none", ret |-> "nil", sig |-> NoSig, waited |-> 0,
             elapsed |-> 0, timeout |-> 0, n |-> 0, via |-> "line"]
    /\ disp = [pc |-> "none", ev |-> <<>>]
    /\ stopper = "none"
    /\ listener = "none"
    /\ calls = [c \in Callers |-> [pc |-> "idle", op |-> "none", res |-> "none",
                                   arg |-> NoArg, pre |-> FALSE, sent |-> <<>>,
                                   st0 |-> "Play", cl0 |-> FALSE,
                                   st1 |-> "Play", cl1 |-> FALSE]]
    /\ ncalls = 0
    /\ crashed = "no"
    /\ h = [sent |-> <<>>, written |-> <<>>, shots |-> 0, connCloses |-> 0,
            sigCloses |-> 0, stopsOK |-> 0, stopsErr |-> 0,
            warnedAt |-> {}, openedAt |-> {}, failedAt |-> {},
            playErr |-> "none", pz |-> NoPause, stepped |-> NoStep,
            wfi |-> NoWfi, fatal |-> {}, aborted |-> FALSE,
            line |-> NoLine]

TimedOps == {"Step", "Pause", "Continue"}

NextTimed ==
    \/ Start
    \/ ConnBreak
    \/ playFile_open
    \/ playFile_addTotal
    \/ setFile
    \/ playFile_scan
    \/ setStep
    \/ Tick
    \/ playFile_timer
    \/ playFile_elapsed
    \/ \E c \in Callers : playFile_recv(c)
    \/ playFile_abort
    \/ playFile_signal
    \/ \E c \in Callers : playFile_resume(c)
    \/ playFile_step
    \/ playFile_event
    \/ playFile_send
    \/ resetFile
    \/ Start_closeOut
    \/ Start_stop
    \/ writeEvents_stop
    \/ writeEvents_write
    \/ writeEvents_end
    \/ writeEvents_close
    \/ listener_read
    \/ listener_drop
    \/ \E c \in Callers, op \in TimedOps : Call(c, op, NoArg)
    \/ \E c \in Callers : Step(c)
    \/ \E c \in Callers : Pause(c)
    \/ \E c \in Callers : Continue(c)
    \/ \E c \in Callers : Unlock(c)

SpecTimed == InitTimed /\ [][NextTimed]_vars

\* The whole program, callers included, under the same scheduling.
SpecFair == Init /\ [][Next]_vars /\ FairQuiet

----------------------------------------------------------------------------
\* Properties.

IsPrefix(a, b) == Len(a) <= Len(b) /\ a = SubSeq(b, 1, Len(a))

IsScriptEvent(ev) == ev[1] = "script"

\* The wire events of a file in script order, each include spliced in at
\* its load line.
RECURSIVE Flatten(_, _), FlattenFrom(_, _, _)
Flatten(f, depth) ==
    IF f \notin DOMAIN script \/ depth > LimitDepth THEN <<>>
    ELSE FlattenFrom(f, 1, depth)
FlattenFrom(f, i, depth) ==
    IF i > Len(script[f]) THEN <<>>
    ELSE (CASE script[f][i].kind = "ev" -> << <<"script", f, i>> >>
            [] script[f][i].kind = "load" -> Flatten(script[f][i].arg, depth + 1)
            [] OTHER -> <<>>)
         \o FlattenFrom(f, i + 1, depth)

\* C1: what the dispatcher has written is what was sent to the out queue,
\* in the same order (all of it once the dispatcher has ended with no write
\* failure), and the events the interpreter sent are the script's events in
\* script order with each include at the position of its load line, as long
\* as no Stop made the interpreter abort a file (all of them once the top
\* file has ended with neither an error nor an abort).
C1_WireOrder ==
    /\ IsPrefix(h.written, h.sent)
    /\ ~h.aborted => IsPrefix(SelectSeq(h.sent, IsScriptEvent), Flatten("top", 1))
    /\ (disp.pc = "done" /\ "write" \notin h.fatal) => h.written = h.sent
    /\ (h.playErr = "nil" /\ ~h.aborted)
          => SelectSeq(h.sent, IsScriptEvent) = Flatten("top", 1)

\* A run with a control signal in which the whole nested script was written,
\* the include's events between the parent's.
C1_Witness ==
    /\ script = ScriptNested
    /\ ncalls > 0
    /\ \E c \in Callers : calls[c].sent # <<>>
    /\ h.written = Flatten("top", 1)
    /\ Len(h.written) = 4
    /\ h.written[2][2] = "sub" /\ h.written[3][2] = "sub"
    /\ h.written[1][2] = "top" /\ h.written[4][2] = "top"

SignalOf(op) ==
    CASE op = "Step" -> "Step" [] op = "Pause" -> "Pause"
      [] op = "Continue" -> "Play"

\* C2: a returned Step, Pause or Continue whose precondition failed returned
\* an error, sent nothing and left state and closed as they were; one whose
\* precondition held sent exactly its one signal, left closed as it was and
\* left state at Pause (Pause), Play (Continue) or unchanged (Step). A call
\* only reaches its send when its precondition held.
C2_ControlCalls ==
    \A c \in Callers :
      LET r == calls[c] IN
      r.op \in {"Step", "Pause", "Continue"} =>
        /\ r.pc \in {"sendSig", "sent"} => r.pre /\ Len(r.sent) <= 1
        /\ (r.pc = "idle" /\ r.res # "none") =>
             IF r.pre
             THEN /\ r.res = "nil"
                  /\ r.sent = <<SignalOf(r.op)>>
                  /\ r.cl1 = r.cl0
                  /\ r.st1 = (CASE r.op = "Pause" -> "Pause"
                                [] r.op = "Continue" -> "Play"
                                [] OTHER -> r.st0)
             ELSE /\ r.res = "err"
                  /\ r.sent = <<>>
                  /\ r.st1 = r.st0 /\ r.cl1 = r.cl0

\* A Continue that succeeded, after a Pause that did.
C2_Witness ==
    \E c \in Callers :
      /\ calls[c].op = "Continue" /\ calls[c].pc = "idle"
      /\ calls[c].res = "nil" /\ calls[c].st0 = "Pause"
      /\ p.state = "Play"

\* C3: at most one Stop has closed the session and the signal channel was
\* closed at most once, closed is set exactly when that Stop has run, no
\* close of the closed channel happened, and no sender is in a send on the
\* signal channel once it is closed.
C3_OneClose ==
    /\ h.stopsOK <= 1
    /\ h.sigCloses <= 1
    /\ p.closed <=> h.stopsOK = 1
    /\ sigClosed <=> h.sigCloses = 1
    /\ crashed # "close of closed channel"
    /\ \A c \in Callers : calls[c].pc = "sendSig" => ~sigClosed
    /\ \A c \in Callers :
         (calls[c].op = "Stop" /\ calls[c].pc = "idle" /\ calls[c].cl0)
            => calls[c].res = "err" /\ calls[c].cl1

\* Three Stop calls: one closed the session, the other two returned errors.
C3_Witness ==
    /\ h.stopsOK = 1 /\ h.stopsErr >= 2
    /\ it.pc = "done" /\ stopper = "done"
    /\ \E c \in Callers : calls[c].op = "Stop" /\ calls[c].pc = "idle"

\* The script goroutine is at a call that takes the session lock.
InterpWantsLock ==
    \/ it.pc \in {"addDuration0", "setFile", "setStep", "addDurationT",
                  "addDurationW", "addDurationS", "stop"}
    \/ it.pc = "return" /\ Top.deferred

\* A Stop call is waiting for the session lock.
StopWaits ==
    \/ it.pc = "stop"
    \/ stopper = "lock"
    \/ \E c \in Callers : calls[c].pc = "lock" /\ calls[c].op = "Stop"

\* C4: no state is reached in which a Stop call waits for the session lock
\* while the lock's holder is blocked in a send on the signal channel and the
\* channel's only receiver, the script goroutine, itself waits for the lock
\* or has ended: from there neither the holder nor the Stop call returns.
C4_StopReturns ==
    ~ \E c \in Callers :
        /\ lock = c /\ calls[c].pc = "sendSig"
        /\ InterpWantsLock \/ it.pc = "done"
        /\ StopWaits

\* C5: once a Play signal has resumed a wait that a Pause interrupted after
\* w of the outstanding delay d, the delay the resumed wait waits is d - w.
C5_PauseKeepsElapsed ==
    (h.pz.on = "resumed" /\ it.pc = "select") => Top.duration = h.pz.d - h.pz.w

\* C6: from the receipt of a Step signal in a line's timed wait until that
\* line's directive is acted on, the interpreter is never again in a timed
\* wait: it only books the durations and goes to the directive of the same
\* line.
C6_StepActsAtOnce ==
    h.stepped.on =>
        /\ it.pc \in {"addDurationW", "addDurationS", "event"}
        /\ Len(stack) = h.stepped.level
        /\ Top.i = h.stepped.i

\* A Step that arrived before the line's delay had elapsed, the interpreter
\* now at the directive.
C6_Witness ==
    /\ h.stepped.on /\ it.pc = "event"
    /\ it.elapsed < Line.d

\* C7: setFile fails exactly at depths above 100 and succeeds, warning, at
\* depths 11 to 100; once it has failed the interpreter does nothing but
\* return the recursion error through the enclosing playFile calls, the top
\* one returns it, and the script goroutine ends with the session closed.
C7_RecursionLimit ==
    /\ \A d \in h.failedAt : d > LimitDepth
    /\ \A d \in h.openedAt : d <= LimitDepth
    /\ h.warnedAt = {d \in h.openedAt \cup h.failedAt : d > WarnDepth}
    /\ h.failedAt # {} =>
         /\ it.pc \in {"return", "closeOut", "stop", "done"}
         /\ it.ret = "recursion"
         /\ it.pc # "return" => h.playErr = "recursion"
    /\ it.pc = "done" => p.closed

\* The self-including script ran into the limit: levels 1 to 100 were opened,
\* 11 to 101 warned, level 101 failed, and the playback ended closed with
\* the recursion error.
C7_Witness ==
    /\ script = ScriptLoop
    /\ it.pc = "done" /\ p.closed
    /\ h.playErr = "recursion"
    /\ h.openedAt = 1..LimitDepth
    /\ h.failedAt = {LimitDepth + 1}
    /\ h.warnedAt = (WarnDepth + 1)..(LimitDepth + 1)

\* C8: a waitForIt that received a frame (and persisted every frame it
\* received, on a working connection) returns no error and has written
\* exactly one image file.
C8_FrameSucceeds ==
    (h.wfi.res # "none" /\ h.wfi.got > 0 /\ h.wfi.res \notin {"persist", "request"})
        => (h.wfi.res = "nil" /\ h.wfi.files = 1)

\* C9: an Inject on a closed session returns an error and sends nothing, and
\* the interpreter does not crash on a LoadFile signal.
C9_InjectLoad ==
    /\ \A c \in Callers :
         (/\ calls[c].op \in {"InjectEvent", "InjectLoad", "InjectWait"}
          /\ calls[c].pc = "idle" /\ calls[c].res # "none" /\ calls[c].cl0)
            => calls[c].res = "err" /\ calls[c].sent = <<>>
    /\ crashed # "type assertion"

\* C10: once the playback has ended after a fatal failure, the last-error
\* field is set and the session is closed.
C10_LastError ==
    (h.fatal # {} /\ it.pc = "done") => (p.err # "nil" /\ p.closed)

\* The top-level playFile has returned with the whole script tree played.
Exhausted ==
    /\ it.pc \in {"closeOut", "stop", "done"}
    /\ h.playErr = "nil" /\ ~h.aborted

\* The session has ended: closed, both channels closed, the connection
\* closed by the dispatcher.
Ended ==
    /\ p.closed /\ sigClosed /\ outClosed
    /\ conn = "closed" /\ h.connCloses = 1 /\ disp.pc = "done"

\* C11 as stated: with no external call, once the script tree is exhausted
\* the session eventually is closed with both channels closed; the
\* connection is closed at most once, by the dispatcher, and when it is
\* closed every event the interpreter sent has been written.
C11_QuietEndAllWritten ==
    /\ [](h.connCloses <= 1)
    /\ []((conn = "closed") => (disp.pc = "done" /\ outClosed))
    /\ []((Exhausted /\ conn = "closed") => h.written = h.sent)
    /\ (Exhausted ~> Ended)

\* C11, amended: the same, the events written being all the events sent
\* unless a write to the connection failed (the dispatcher then drops what
\* it receives afterwards).
C11_QuietEnd ==
    /\ [](h.connCloses <= 1)
    /\ []((conn = "closed") => (disp.pc = "done" /\ outClosed))
    /\ []((Exhausted /\ conn = "closed" /\ "write" \notin h.fatal)
             => h.written = h.sent)
    /\ (Exhausted ~> Ended)

\* The nested script played to its end with no call from outside: all four
\* events written, then the connection closed and the session closed.
C11_Witness ==
    /\ script = ScriptNested /\ ncalls = 0
    /\ Exhausted /\ Ended
    /\ it.pc = "done" /\ stopper = "done"
    /\ Len(h.sent) = 4 /\ h.written = h.sent

\* C12: no task is in a send on the signal channel or on the out queue
\* while it holds the session lock.
C12_NoLockedSend ==
    \A c \in Callers : calls[c].pc \in {"sendSig", "sendOut"} => lock # c

\* The innermost playFile call is past its setFile, or no call is active.
Settled == stack = <<>> \/ Top.deferred

\* C13: depth is never negative, and whenever no playFile call is between
\* its entry and its setFile (every active call has its file registered,
\* every other call has returned), depth is the number of active calls and
\* the current file is the innermost call's file, nil when none is active.
C13_DepthRestored ==
    /\ p.depth >= 0
    /\ (started = "yes" /\ Settled) =>
          /\ p.depth = Len(stack)
          /\ p.file = (IF stack = <<>> THEN Nil ELSE Handle(Len(stack)))

\* The interpreter is acting on a directive: it is at the send of a wire
\* event, in the entry of an included file, or in a synchronizer.
Acting ==
    it.pc \in {"sendOut", "open", "addDuration0", "setFile",
               "wfiLoop", "wfiSelect", "wfiSleep"}

\* C14: once the interpreter has seen the signal channel closed in a wait,
\* it acts on no further directive of any file, and the top-level playFile
\* returns no error.
C14_AbortUnwindsAll ==
    h.aborted =>
        /\ ~Acting
        /\ h.playErr \in {"none", "nil"}

\* A write to the connection has failed.
WriteFailed == "write" \in h.fatal

\* C15: after a failed write the dispatcher writes nothing more, has handed
\* Stop to a goroutine of its own and only drains the out queue until it is
\* closed; the interpreter is at a send on the out queue only while the
\* queue is open and the dispatcher still receives from it, and each such
\* send completes (unless the process has panicked meanwhile).
C15_DrainAfterFailure ==
    /\ [][WriteFailed => h'.written = h.written]_vars
    /\ [](WriteFailed => (disp.pc \in {"drain", "done"} /\ stopper # "none"))
    /\ [](disp.pc = "done" => outClosed)
    /\ [](it.pc = "sendOut" => (~outClosed /\ disp.pc \in {"recv", "write", "drain"}))
    /\ ((it.pc = "sendOut") ~> (it.pc # "sendOut" \/ ~Alive))

\* The interpreter has sent an event after the write of an earlier one
\* failed: the dispatcher took it without writing it.
C15_Witness ==
    /\ WriteFailed /\ disp.pc = "drain"
    /\ Len(h.sent) > Len(h.written) + 1
    /\ IsScriptEvent(h.sent[Len(h.sent)])
    /\ it.pc = "scan"

\* A wait takes a frame in this step.
FrameTaken == h'.wfi.got = h.wfi.got + 1

\* The listener's handoff of a frame ends in this step.
HandoffEnds == listener = "send" /\ listener' = "read"

\* C16: the listener with a frame in hand can always go on, by delivering it
\* or by dropping it; its handoff ends either with a wait that is receiving
\* at that moment taking the frame or, when no wait is receiving, with the
\* frame dropped and nothing else changed; and a wait takes a frame only in
\* the very step that ends the handoff of that frame, so that no frame is
\* kept for later and none is taken twice.
C16_FrameHandoff ==
    /\ []((Alive /\ listener = "send") =>
            ENABLED (listener_drop \/ \E saved \in BOOLEAN : waitForIt_frame(saved)))
    /\ [][HandoffEnds =>
            \/ FrameTaken /\ it.pc = "wfiSelect"
            \/ it.pc # "wfiSelect" /\ it' = it /\ h' = h /\ stack' = stack]_vars
    /\ [][h'.wfi.got > h.wfi.got => (FrameTaken /\ HandoffEnds)]_vars

\* A wait has taken one frame and sleeps; the listener has the next frame in
\* hand, which no wait is receiving.
C16_Witness ==
    /\ it.pc = "wfiSleep" /\ h.wfi.got = 1
    /\ listener = "send"

\* A Pause call has returned successfully and since then neither Continue
\* nor Stop has been called, from outside or by the session's goroutines.
PausedPeriod ==
    /\ p.state = "Pause" /\ ~p.closed
    /\ \A c \in Callers :
         calls[c].pc = "idle" \/ calls[c].op \notin {"Continue", "Stop"}
    /\ stopper # "lock" /\ it.pc \notin {"stop", "done"}

\* The interpreter is acting on a directive of a script line: it is at the
\* send of the line's wire event, in the entry of the file the line
\* includes, or in the synchronizer the line starts.
ScriptActing ==
    \/ it.pc = "sendOut"
    \/ it.pc \in {"open", "addDuration0", "setFile"} /\ Top.via = "line"
    \/ it.pc \in {"wfiLoop", "wfiSelect", "wfiSleep"} /\ it.via = "line"

\* C17: while a successful Pause is in force the interpreter acts on no
\* script directive.
C17_PauseHolds == PausedPeriod => ~ScriptActing

\* C18: no task is at a send on the out queue once the queue is closed, and
\* no send on a closed channel has panicked.
C18_NoSendAfterClose ==
    /\ \A c \in Callers : calls[c].pc = "sendOut" => ~outClosed
    /\ it.pc = "sendOut" => ~outClosed
    /\ crashed # "send on closed channel"

\* C19: Info never crashes, and whenever an Info call can run on a session
\* that is not closed the current file is set.
C19_InfoSafe ==
    /\ crashed # "nil dereference"
    /\ \A c \in Callers :
         (calls[c].op = "Info" /\ calls[c].pc = "lock" /\ lock = 0 /\ ~p.closed)
            => p.file # Nil

\* C19, the case the claim names: Info can run after the top-level playFile
\* has returned and before Stop has set closed, and the file is set then.
C19_InfoAfterPlay ==
    \A c \in Callers :
      (/\ calls[c].op = "Info" /\ calls[c].pc = "lock" /\ lock = 0
       /\ ~p.closed /\ it.pc \in {"closeOut", "stop"})
         => p.file # Nil

\* The interpreter is at the directive of the line whose wait it last began.
AtDirective ==
    /\ it.pc = "event"
    /\ h.line.level = Len(stack) /\ h.line.i = Top.i

\* C20: when the interpreter comes to a line's directive, the remaining
\* duration is the value it had when the line's wait began less the line's
\* delay.
C20_NetDelay ==
    AtDirective => p.duration = h.line.est - Line.d

\* A directive reached by a Step that came some time into a wait which a
\* Pause, itself some time into the wait, and a Continue had interrupted
\* before: the outstanding delay has grown by both waited times.
C20_Witness ==
    /\ AtDirective /\ h.stepped.on
    /\ Line.d > 0 /\ it.elapsed > 0
    /\ Top.duration > Line.d + it.elapsed
    /\ p.duration = h.line.est - Line.d

====
